---- MODULE Spec2Model ----
(***************************************************************************)
(* Model of the adapters of the network MCP suite.                         *)
(*                                                                         *)
(* Catalyst Center (src/catc-mcp-server/catc_mcp_server.py): the shared    *)
(* CatalystCenterAPI object with its cached token, authenticate(),         *)
(* _get_headers() and the retry-on-401 sequence of get / post /            *)
(* get_assurance_issues / resolve_issues.  A tool call is a sequence of    *)
(* steps of one caller; a step ends where the caller either waits for the  *)
(* upstream or reads/writes self.token, so that calls running on several   *)
(* worker threads interleave exactly at the places where the shared token  *)
(* is touched.                                                             *)
(*                                                                         *)
(* ISE, ThousandEyes, Splunk: the single-request get / call_splunk_mcp.    *)
(*                                                                         *)
(* IOS XE (src/ios-xe-mcp-server/ios_xe_mcp_server.py): show_command and   *)
(* config_command over an SSH connection, with the texts they return and   *)
(* log; a str is a sequence of characters.                                 *)
(*                                                                         *)
(* All programs: the module-level start (environment, validation, client,  *)
(* connectivity test, mcp.run).  Meraki (src/meraki_mcp_server.py): the    *)
(* route lists of the roles and the mapping of API operations to tools.    *)
(***************************************************************************)
EXTENDS Integers, Sequences, FiniteSets, TLC

\* ---------------------------------------------------------------- bounds
\* number of distinct tokens the upstream login endpoint issues
MaxTok == 3

\* length of the longest API key in the environment
MaxKey == 13

\* number of lines in the commands argument of config_command, at most
MaxCmds == 2

\* number of segments in the path of a Meraki API operation, at most
MaxPath == 4

\* largest value of the size argument of an ISE list tool
MaxSize == 101

\* ------------------------------------------------------------- constants
\* self.token = None (falsy: "if not self.token")
NoToken == 0

\* the four operations that contain the retry-on-401 sequence
Ops == {"get", "post", "issues", "resolve"}

\* what the login endpoint can answer to session.post(auth_url, ...)
\*   ok      : 200, JSON object with a "Token" field
\*   notoken : 200, JSON object without "Token" (.get("Token") is None)
\*   badjson : 200, body that response.json() / .get cannot handle
\*   s401    : status 401
\*   s500    : status 500
\*   neterr  : transport failure (session.post raises)
LoginOutcomes == {"ok", "notoken", "badjson", "s401", "s500", "neterr"}

\* statuses the data endpoint can answer
DataStatuses == {200, 204, 304, 401, 500}

\* JSON values: {"response":[{"id":"1"}]} and
\* {"response":{"successfulIssueIds":["1"],"failureIssueIds":[]}}
PList == [respIsDict |-> FALSE, ids |-> <<"1">>]
PDict == [respIsDict |-> TRUE, ids |-> <<"1">>]
NoVal == [respIsDict |-> FALSE, ids |-> <<>>]

\* response bodies: well-formed JSON carrying a value, or text that is not JSON
Bodies == {[json |-> TRUE, val |-> PList],
           [json |-> TRUE, val |-> PDict],
           [json |-> FALSE, val |-> NoVal]}
NoBody == [json |-> FALSE, val |-> NoVal]

VARIABLES
    phase,    \* "boot" | "serving" | "exited" : position of __main__
    token,    \* catc_api.token (NoToken or an issued token)
    issued,   \* number of tokens the upstream has issued so far
    call,     \* the observed tool call: its position, locals and outcome
    bg,       \* position of a second tool call running on another worker
    plain,    \* latest get of the ISE / ThousandEyes client and its outcome
    boot,     \* the adapter process being started: its environment and position
    ssh,      \* the observed IOS XE tool call: its position, locals and outcome
    route     \* the Meraki API operation being mapped and its MCP type

vars == <<phase, token, issued, call, bg, plain, boot, ssh, route>>

\* state of the HTTP clients / of the process start and the SSH tools
http == <<phase, token, issued, call, bg, plain>>
ext == <<boot, ssh, route>>

NoOut == [kind |-> "none", status |-> 0, val |-> NoVal]

\* locals of a call before its first statement
\*   pc    position in the retry sequence
\*   hdr   X-Auth-Token of the latest data request
\*   st, body   latest data response
\*   nAuth, nData   authenticate() invocations and data requests of this call
\*   own   token stored by this call's latest successful authenticate()
\*   ret   return value of this call's latest authenticate()
\*   at    position of the statement that ended the call
\*   out   how the call ended
\*   arg   endpoint with the query parameters / the JSON body of the call
\*   sent  the data requests of the call: method, target, X-Auth-Token
IdleCall == [pc |-> "idle", op |-> "get", hdr |-> NoToken, st |-> 0,
             body |-> NoBody, nAuth |-> 0, nData |-> 0,
             own |-> NoToken, ret |-> "none", at |-> "none", out |-> NoOut,
             arg |-> "/site", sent |-> <<>>]

\* the call on the other worker before it starts
IdleBg == [pc |-> "idle", from |-> "idle", got |-> NoToken]

\* what a tool asks for: endpoint and query parameters / JSON body
Args == {"/site", "/network-health", "/network-device?limit=1"}

\* session.get or session.post
Method(op) == IF op \in {"get", "issues"} THEN "GET" ELSE "POST"

\* ------------------------------------------------------------ authenticate
\* return value of authenticate() for a login outcome
AuthReturns(o) == o \in {"ok", "notoken"}

\* variant: a failed attempt clears the cached token
AuthStore_Clear(tok, o, fresh) ==
    IF o = "ok" THEN fresh ELSE NoToken

\* value of self.token after authenticate() met login outcome o;
\* fresh is the token the upstream issued in an "ok" answer
AuthStore(tok, o, fresh) ==
    IF o = "ok" THEN fresh
    ELSE IF o = "notoken" THEN NoToken
    ELSE tok

\* variants: authenticate on every header build / never in a header build
NeedsAuth_Always(tok) == TRUE

NeedsAuth_Never(tok) == FALSE

\* "if not self.token" in _get_headers
NeedsAuth(tok) == tok = NoToken

\* ---------------------------------------------------------- end of a call
\* variant: only server errors raise
RaisesForStatus_5xx(st) == st >= 500 /\ st < 600

\* response.raise_for_status(): HTTPError for 4xx and 5xx
RaisesForStatus(st) == st >= 400 /\ st < 600

\* variant: the value is reshaped before it is returned
ReturnValue_Strip(body) == [respIsDict |-> body.val.respIsDict, ids |-> <<>>]

\* value handed to the caller by "return response.json()"
ReturnValue(body) == body.val

\* raise_for_status(); return response.json()   (get, post, issues)
FinishPlain(st, body) ==
    IF RaisesForStatus(st) THEN [kind |-> "HTTPError", status |-> st, val |-> NoVal]
    ELSE IF ~body.json THEN [kind |-> "JSONError", status |-> st, val |-> NoVal]
    ELSE [kind |-> "return", status |-> st, val |-> ReturnValue(body)]

\* resolve_issues: the same, then result.get('response', {}).get(...), with
\* every exception of the try block turned into an error dict
FinishResolve(st, body) ==
    IF RaisesForStatus(st) THEN [kind |-> "errdict", status |-> st, val |-> NoVal]
    ELSE IF ~body.json THEN [kind |-> "errdict", status |-> st, val |-> NoVal]
    ELSE IF ~body.val.respIsDict THEN [kind |-> "errdict", status |-> st, val |-> NoVal]
    ELSE [kind |-> "resolved", status |-> st, val |-> body.val]

Finish(op, st, body) ==
    IF op = "resolve" THEN FinishResolve(st, body) ELSE FinishPlain(st, body)

\* variant: resolve_issues lets the exception through
RaiseInTry_Propagate(op, kind) == [kind |-> kind, status |-> 0, val |-> NoVal]

\* an exception raised inside the try block (not an HTTPError)
RaiseInTry(op, kind) ==
    IF op = "resolve" THEN [kind |-> "errdict", status |-> 0, val |-> NoVal]
    ELSE [kind |-> kind, status |-> 0, val |-> NoVal]

AuthError == [kind |-> "AuthError", status |-> 0, val |-> NoVal]

\* ------------------------------------------- ISE and ThousandEyes clients
PlainClients == {"ise", "te"}

\*   n   requests sent by the call
NoPlain == [client |-> "none", st |-> 0, body |-> NoBody, n |-> 0, out |-> NoOut]

\* CiscoISEAPI.get: session.get; raise_for_status(); return response.json()
IseFinish(st, body) ==
    IF RaisesForStatus(st) THEN [kind |-> "HTTPError", status |-> st, val |-> NoVal]
    ELSE IF ~body.json THEN [kind |-> "JSONError", status |-> st, val |-> NoVal]
    ELSE [kind |-> "return", status |-> st, val |-> body.val]

\* ThousandEyesAPI.get: session.get; raise_for_status(); return response.json()
TeFinish(st, body) ==
    IF RaisesForStatus(st) THEN [kind |-> "HTTPError", status |-> st, val |-> NoVal]
    ELSE IF ~body.json THEN [kind |-> "JSONError", status |-> st, val |-> NoVal]
    ELSE [kind |-> "return", status |-> st, val |-> body.val]

\* ---------------------------------------------------------------- strings
\* a str is a sequence of one-character strings
Min(a, b) == IF a < b THEN a ELSE b
Max(a, b) == IF a > b THEN a ELSE b

\* p in s
Contains(s, p) ==
    \E i \in 0..(Len(s) - Len(p)) : SubSeq(s, i + 1, i + Len(p)) = p

\* s.startswith(p)
StartsWith(s, p) == Len(s) >= Len(p) /\ SubSeq(s, 1, Len(p)) = p

\* s[:n] and s[-n:]
Take(s, n) == SubSeq(s, 1, Min(n, Len(s)))
LastN(s, n) == SubSeq(s, Max(1, Len(s) - n + 1), Len(s))

\* "*" * n
Stars(n) == [i \in 1..n |-> "*"]

\* s.replace(p, r) for a non-empty p: occurrences from the left, not overlapping
RECURSIVE Replace(_, _, _)
Replace(s, p, r) ==
    IF Len(s) < Len(p) THEN s
    ELSE IF SubSeq(s, 1, Len(p)) = p
    THEN r \o Replace(SubSeq(s, Len(p) + 1, Len(s)), p, r)
    ELSE <<Head(s)>> \o Replace(Tail(s), p, r)

\* s.lower()
UpperCase ==
    <<"A", "B", "C", "D", "E", "F", "G", "H", "I", "J", "K", "L", "M",
      "N", "O", "P", "Q", "R", "S", "T", "U", "V", "W", "X", "Y", "Z">>
LowerCase ==
    <<"a", "b", "c", "d", "e", "f", "g", "h", "i", "j", "k", "l", "m",
      "n", "o", "p", "q", "r", "s", "t", "u", "v", "w", "x", "y", "z">>
LowerChar(c) ==
    IF \E i \in 1..26 : UpperCase[i] = c
    THEN LowerCase[CHOOSE i \in 1..26 : UpperCase[i] = c]
    ELSE c
Lower(s) == [i \in 1..Len(s) |-> LowerChar(s[i])]

\* ------------------------------------------------------- process start-up
\* the six adapter programs
Adapters == {"catc", "ise", "te", "ios_xe", "meraki", "splunk"}

\* os.getenv(name): None when the variable is absent, else its text
Absent == [set |-> FALSE, v |-> <<>>]
Val(s) == [set |-> TRUE, v |-> s]

\* "not x" for x = os.getenv(name)
Falsy(x) == ~x.set \/ x.v = <<>>

\* the variables each program validates
RequiredVars(a) ==
    CASE a = "catc" -> {"CATC_URL", "CATC_USERNAME", "CATC_PASSWORD"}
      [] a = "ise" -> {"ISE_HOST", "ISE_USERNAME", "ISE_PASSWORD"}
      [] a = "te" -> {"TE_TOKEN"}
      [] a = "ios_xe" -> {"IOS_XE_USERNAME", "IOS_XE_PASSWORD"}
      [] a = "meraki" -> {"MERAKI_KEY"}
      [] a = "splunk" -> {"SPLUNK_HOST", "SPLUNK_API_KEY"}

\* the API keys: MaxKey characters at most, all different
KeyVars == {"TE_TOKEN", "MERAKI_KEY", "SPLUNK_API_KEY"}
KeyChars == SubSeq(LowerCase, 1, MaxKey)
Key(n) == SubSeq(KeyChars, 1, n)

Placeholder ==
    <<"y", "o", "u", "r", "_", "a", "c", "t", "u", "a", "l", "_", "a", "p",
      "i", "_", "k", "e", "y", "_", "h", "e", "r", "e">>

\* device passwords
Passwords == {<<"c", "i", "s", "c", "o">>,
              <<"p", "w", "1">>,
              <<"A", "b">>}

\* the values a variable can have in the environment
EnvValues(name) ==
    {Absent, Val(<<>>)} \cup
    (IF name \in KeyVars
     THEN {Val(Key(n)) : n \in 1..MaxKey} \cup {Val(Placeholder)}
     ELSE IF name = "IOS_XE_PASSWORD" THEN {Val(p) : p \in Passwords}
     ELSE {Val(<<"x">>)})

AllEnvValues == UNION {EnvValues(n) : n \in UNION {RequiredVars(a) : a \in Adapters}}

Envs(a) ==
    {e \in [RequiredVars(a) -> AllEnvValues] :
        \A n \in RequiredVars(a) : e[n] \in EnvValues(n)}

\* variant: the password is not validated
ValidateEnv_NoPassword(a, env) ==
    CASE a = "catc" ->
           IF Falsy(env["CATC_URL"]) THEN "ValueError"
           ELSE IF Falsy(env["CATC_USERNAME"]) THEN "ValueError"
           ELSE "ok"
      [] a = "ise" ->
           IF Falsy(env["ISE_HOST"]) \/ Falsy(env["ISE_USERNAME"])
           THEN "ValueError" ELSE "ok"
      [] a = "te" -> "ok"
      [] a = "ios_xe" ->
           IF Falsy(env["IOS_XE_USERNAME"]) THEN "ValueError" ELSE "ok"
      [] a = "meraki" -> "ok"
      [] a = "splunk" ->
           IF Falsy(env["SPLUNK_HOST"]) THEN "exit1" ELSE "ok"

\* the validation of the required variables: how the module-level code goes on
ValidateEnv(a, env) ==
    CASE a = "catc" ->
           IF Falsy(env["CATC_URL"]) THEN "ValueError"
           ELSE IF Falsy(env["CATC_USERNAME"]) THEN "ValueError"
           ELSE IF Falsy(env["CATC_PASSWORD"]) THEN "ValueError"
           ELSE "ok"
      [] a = "ise" ->
           IF Falsy(env["ISE_HOST"]) \/ Falsy(env["ISE_USERNAME"])
              \/ Falsy(env["ISE_PASSWORD"])
           THEN "ValueError" ELSE "ok"
      [] a = "te" -> IF Falsy(env["TE_TOKEN"]) THEN "ValueError" ELSE "ok"
      [] a = "ios_xe" ->
           IF Falsy(env["IOS_XE_USERNAME"]) \/ Falsy(env["IOS_XE_PASSWORD"])
           THEN "ValueError" ELSE "ok"
      [] a = "meraki" ->
           IF Falsy(env["MERAKI_KEY"])
              \/ StartsWith(env["MERAKI_KEY"].v, Take(Placeholder, 12))
           THEN "exit1" ELSE "ok"
      [] a = "splunk" ->
           IF Falsy(env["SPLUNK_HOST"]) THEN "exit1"
           ELSE IF Falsy(env["SPLUNK_API_KEY"])
                   \/ StartsWith(env["SPLUNK_API_KEY"].v, Take(Placeholder, 12))
           THEN "exit1" ELSE "ok"

\* the text printed about the API key once the validation has passed
Dots == <<".", ".", ".">>
KeyLine(a, env) ==
    CASE a = "meraki" ->
           Take(env["MERAKI_KEY"].v, 8) \o Dots \o LastN(env["MERAKI_KEY"].v, 4)
      [] a = "te" ->
           Take(env["TE_TOKEN"].v, 8) \o Dots \o
           (IF Len(env["TE_TOKEN"].v) > 12
            THEN LastN(env["TE_TOKEN"].v, 4) ELSE Stars(3))
      [] a = "splunk" ->
           Take(env["SPLUNK_API_KEY"].v, 8) \o Dots
           \o LastN(env["SPLUNK_API_KEY"].v, 4)
      [] OTHER -> <<>>

\* programs whose __main__ tests the upstream before mcp.run
Probing == {"catc", "ise", "te"}

\* no process started yet
\*   pc      "off" | "env" | "valid" | "client" | "ready" | "listening" | "failed"
\*   client  the API client object exists
\*   net     requests sent to the upstream so far
\*   listen  mcp.run has been called
\*   line    the text printed about the API key
\*   exit    how the process ended: "none" | "ValueError" | "exit1"
\*   probe   how the test of the upstream went: "none" | "ok" | "failed"
NoProcess == [adapter |-> "catc", pc |-> "off", env |-> <<>>, client |-> FALSE,
              net |-> 0, listen |-> FALSE, line |-> <<>>, exit |-> "none",
              probe |-> "none"]

\* ------------------------------------------------------- IOS XE SSH tools
REDACTED ==
    <<"*", "*", "*", "R", "E", "D", "A", "C", "T", "E", "D", "*", "*", "*">>

\* the fixed text in front of an authentication failure result
AuthHelp ==
    <<"A", "u", "t", "h", "e", "n", "t", "i", "c", "a", "t", "i", "o", "n",
      " ", "t", "o", " ", "d", "e", "v", "i", "c", "e", " ", "f", "a", "i",
      "l", "e", "d", ".", "\n", "\n", "C", "o", "m", "m", "o", "n", " ",
      "c", "a", "u", "s", "e", "s", ":", "\n", "1", ".", " ", "I", "n",
      "v", "a", "l", "i", "d", " ", "c", "r", "e", "d", "e", "n", "t", "i",
      "a", "l", "s", " ", "i", "n", " ", "e", "n", "v", "i", "r", "o", "n",
      "m", "e", "n", "t", "\n", "2", ".", " ", "D", "e", "v", "i", "c",
      "e", " ", "S", "S", "H", " ", "c", "o", "n", "f", "i", "g", "u", "r",
      "a", "t", "i", "o", "n", "\n", "3", ".", " ", "N", "e", "t", "w",
      "o", "r", "k", " ", "c", "o", "n", "n", "e", "c", "t", "i", "v", "i",
      "t", "y", "\n", "\n", "D", "e", "v", "i", "c", "e", ":", " ", "c",
      "i", "s", "c", "o", "_", "i", "o", "s", " ">>
Port22 ==
    <<":", "2", "2", "\n", "\n">>

ShowErrPrefix ==
    <<"E", "r", "r", "o", "r", " ", "e", "x", "e", "c", "u", "t", "i", "n",
      "g", " ", "c", "o", "m", "m", "a", "n", "d", " ", "o", "n", " ">>
CfgErrPrefix ==
    <<"E", "r", "r", "o", "r", " ", "d", "u", "r", "i", "n", "g", " ", "c",
      "o", "n", "f", "i", "g", "u", "r", "a", "t", "i", "o", "n", " ", "o",
      "n", " ">>
HostRequired ==
    <<"E", "r", "r", "o", "r", ":", " ", "h", "o", "s", "t", " ", "p", "a",
      "r", "a", "m", "e", "t", "e", "r", " ", "i", "s", " ", "r", "e", "q",
      "u", "i", "r", "e", "d">>
CommandsRequired ==
    <<"E", "r", "r", "o", "r", ":", " ", "c", "o", "m", "m", "a", "n", "d",
      "s", " ", "m", "u", "s", "t", " ", "b", "e", " ", "a", " ", "n", "o",
      "n", "-", "e", "m", "p", "t", "y", " ", "l", "i", "s", "t">>
AppliedPrefix ==
    <<"C", "o", "n", "f", "i", "g", "u", "r", "a", "t", "i", "o", "n", " ",
      "s", "u", "c", "c", "e", "s", "s", "f", "u", "l", "l", "y", " ", "a",
      "p", "p", "l", "i", "e", "d", " ", "t", "o", " ">>

AuthenticationWord ==
    <<"A", "u", "t", "h", "e", "n", "t", "i", "c", "a", "t", "i", "o", "n">>
AuthWord ==
    <<"a", "u", "t", "h">>

\* texts of the exceptions netmiko raises: authentication refused, no TCP
\* connection, and a command that got no prompt back or was rejected
AuthTexts ==
    {<<"A", "u", "t", "h", "e", "n", "t", "i", "c", "a", "t", "i", "o", "n", " ", "t", "o", " ", "d", "e", "v", "i", "c", "e", " ", "f", "a", "i", "l", "e", "d", ".">>}
ConnTexts ==
    {<<"T", "C", "P", " ", "c", "o", "n", "n", "e", "c", "t", "i", "o", "n", " ", "t", "o", " ", "d", "e", "v", "i", "c", "e", " ", "f", "a", "i", "l", "e", "d", ".">>}
CmdTexts ==
    {<<"P", "a", "t", "t", "e", "r", "n", " ", "n", "o", "t", " ", "d", "e", "t", "e", "c", "t", "e", "d", ":", " ", "'", "r", "1", "#", "'">>,
     <<"P", "a", "t", "t", "e", "r", "n", " ", "n", "o", "t", " ", "d", "e", "t", "e", "c", "t", "e", "d", ":", " ", "'", "a", "u", "t", "h", "-", "s", "w", "#", "'">>,
     <<"A", "A", "A", "/", "A", "U", "T", "H", "O", "R", " ", "r", "e", "j", "e", "c", "t", "e", "d">>}

\* no exception
NoErr == [origin |-> "none", text |-> <<>>]

\* the exceptions of one origin, their text with or without the password in it
Raised(origin, pwd) ==
    {[origin |-> origin, text |-> t \o tl] :
        t \in (CASE origin = "auth" -> AuthTexts
                 [] origin = "conn" -> ConnTexts
                 [] origin = "cmd" -> CmdTexts),
        tl \in {<<>>, <<" ">> \o pwd}}

\* host arguments: empty, or an address
Hosts == {<<>>, <<"r", "1">>}

\* the commands argument of config_command: a list of lines, or not a list
CfgLines == {"interface gi0/1", "no shutdown"}
CommandArgs ==
    {[isList |-> TRUE, items |-> l] :
        l \in UNION {[1..n -> CfgLines] : n \in 0..MaxCmds}}
    \cup {[isList |-> FALSE, items |-> <<>>],
          [isList |-> FALSE, items |-> <<"no shutdown">>]}
NoCommands == [isList |-> FALSE, items |-> <<>>]

NoResult == [kind |-> "none", text |-> <<>>]

\* locals of a tool call before its first statement
\*   pc      "idle" | "conn" | "cmd" | "cfg" | "save"
\*   opened, closed   connections opened / closed by this call
\*   sent    what was sent on the connection, in order
\*   err     the exception caught by the except clause
\*   masked  mask_password(DEFAULT_PASSWORD) as logged
\*   logged  the text given to logger.error
\*   result  the returned string and its kind
IdleSsh == [pc |-> "idle", tool |-> "show", host |-> <<>>, command |-> "",
            commands |-> NoCommands, opened |-> 0, closed |-> 0, sent |-> <<>>,
            err |-> NoErr, masked |-> <<>>, logged |-> <<>>, result |-> NoResult]

\* sanitize_error_message with DEFAULT_PASSWORD = pwd
sanitize_error_message(pwd, error_msg) ==
    IF pwd # <<>> /\ Contains(error_msg, pwd)
    THEN Replace(error_msg, pwd, REDACTED)
    ELSE error_msg

mask_password(password) ==
    IF Falsy(password) THEN <<"N", "o", "n", "e">>
    ELSE IF Len(password.v) <= 2 THEN Stars(Len(password.v))
    ELSE <<password.v[1]>> \o Stars(Len(password.v) - 1)

\* "Authentication" in str(e) or "auth" in str(e).lower()
IsAuthText(text) ==
    Contains(text, AuthenticationWord) \/ Contains(Lower(text), AuthWord)

\* variant: the connection is closed at the end of the block only
ExitWith_Leak(s, raised) ==
    IF raised THEN s ELSE [s EXCEPT !.closed = @ + 1]

\* leaving "with ConnectHandler(...) as conn": the connection is closed
\* whether or not the block raised
ExitWith(s, raised) == [s EXCEPT !.closed = @ + 1]

\* the except clause of show_command / config_command
Except(s, pwd, e) ==
    LET raw_error == (IF s.tool = "show" THEN ShowErrPrefix ELSE CfgErrPrefix)
                     \o s.host \o <<":", " ">> \o e.text
        safe_error == sanitize_error_message(pwd, raw_error)
    IN  [s EXCEPT !.pc = "idle", !.err = e, !.logged = safe_error,
            !.result =
               IF IsAuthText(e.text)
               THEN [kind |-> "autherr",
                     text |-> AuthHelp \o s.host \o Port22 \o safe_error]
               ELSE [kind |-> "error", text |-> safe_error]]

\* ----------------------------------------------------------- Splunk client
\* JSON-RPC answers of the Splunk backend: a result, an error, neither
SplunkBodies ==
    {[json |-> TRUE, val |-> [hasError |-> FALSE, hasResult |-> TRUE]],
     [json |-> TRUE, val |-> [hasError |-> TRUE, hasResult |-> FALSE]],
     [json |-> TRUE, val |-> [hasError |-> FALSE, hasResult |-> FALSE]],
     [json |-> FALSE, val |-> [hasError |-> FALSE, hasResult |-> FALSE]]}

\* call_splunk_mcp after the post: raise_for_status() (httpx: every status
\* outside 2xx raises); response.json();
\* the "error" test; result.get("result", {}); every exception re-raised
SplunkFinish(st, body) ==
    IF st \notin 200..299 THEN [kind |-> "HTTPError", status |-> st, val |-> "none"]
    ELSE IF ~body.json THEN [kind |-> "JSONError", status |-> st, val |-> "none"]
    ELSE IF body.val.hasError THEN [kind |-> "RpcError", status |-> st, val |-> "none"]
    ELSE [kind |-> "return", status |-> st,
          val |-> IF body.val.hasResult THEN "result" ELSE "{}"]

\* ------------------------------------------------------ Meraki route maps
Methods == {"GET", "PUT", "POST", "DELETE"}

\* path segments of the operations in the OpenAPI document; "x" stands for
\* an identifier or any other word
Segs == {"organizations", "networks", "devices", "licenses", "overview",
         "firmware", "upgrades", "firmwareUpgrades", "x"}

\* the resources the paths of the document start with
Roots == {"organizations", "networks", "x"}

\* "/a/b/c" is <<"a", "b", "c">>
Paths ==
    UNION {{p \in [1..n -> Segs] : n > 0 => p[1] \in Roots} : n \in 0..MaxPath}

\* the segment pattern [^/]+
AnySeg == "[^/]+"

\* r"^/a/[^/]+/b$" is Exact(<<"a", AnySeg, "b">>), r"^/.*" is Everything
Exact(segs) == [segs |-> segs, open |-> FALSE]
Everything == [segs |-> <<>>, open |-> TRUE]

\* RouteMap(methods=..., pattern=..., mcp_type=...); methods defaults to all
RouteMap(methods, pattern, mcp_type) ==
    [methods |-> methods, pattern |-> pattern, mcp_type |-> mcp_type]

\* variant: the list ends without the exclusion of everything else
noc_routes_NoExclude ==
    <<RouteMap({"GET"}, Exact(<<"organizations">>), "TOOL"),
      RouteMap({"GET"}, Exact(<<"organizations", AnySeg, "networks">>), "TOOL"),
      RouteMap({"GET"}, Exact(<<"organizations", AnySeg, "devices">>), "TOOL"),
      RouteMap({"GET"}, Exact(<<"organizations", AnySeg, "firmware", "upgrades">>), "TOOL"),
      RouteMap({"GET"}, Exact(<<"organizations", AnySeg, "licenses", "overview">>), "TOOL"),
      RouteMap({"PUT"}, Exact(<<"networks", AnySeg, "firmwareUpgrades">>), "TOOL")>>

noc_routes ==
    <<RouteMap({"GET"}, Exact(<<"organizations">>), "TOOL"),
      RouteMap({"GET"}, Exact(<<"organizations", AnySeg, "networks">>), "TOOL"),
      RouteMap({"GET"}, Exact(<<"organizations", AnySeg, "devices">>), "TOOL"),
      RouteMap({"GET"}, Exact(<<"organizations", AnySeg, "firmware", "upgrades">>), "TOOL"),
      RouteMap({"GET"}, Exact(<<"organizations", AnySeg, "licenses", "overview">>), "TOOL"),
      RouteMap({"PUT"}, Exact(<<"networks", AnySeg, "firmwareUpgrades">>), "TOOL"),
      RouteMap(Methods, Everything, "EXCLUDE")>>

\* variant: the list ends without the exclusion of everything else
sysadmin_routes_NoExclude ==
    <<RouteMap({"GET"}, Exact(<<"organizations">>), "TOOL"),
      RouteMap({"GET"}, Exact(<<"organizations", AnySeg, "networks">>), "TOOL"),
      RouteMap({"GET"}, Exact(<<"organizations", AnySeg, "devices">>), "TOOL"),
      RouteMap({"GET"}, Exact(<<"organizations", AnySeg, "licenses", "overview">>), "TOOL"),
      RouteMap({"GET"}, Exact(<<"organizations", AnySeg, "firmware", "upgrades">>), "TOOL")>>

sysadmin_routes ==
    <<RouteMap({"GET"}, Exact(<<"organizations">>), "TOOL"),
      RouteMap({"GET"}, Exact(<<"organizations", AnySeg, "networks">>), "TOOL"),
      RouteMap({"GET"}, Exact(<<"organizations", AnySeg, "devices">>), "TOOL"),
      RouteMap({"GET"}, Exact(<<"organizations", AnySeg, "licenses", "overview">>), "TOOL"),
      RouteMap({"GET"}, Exact(<<"organizations", AnySeg, "firmware", "upgrades">>), "TOOL"),
      RouteMap(Methods, Everything, "EXCLUDE")>>

firehose_routes == <<>>

\* the role selection: "sysadmin", "all", anything else is the NOC list
Roles == {"sysadmin", "all", "noc"}
selected_routes(role) ==
    IF role = "sysadmin" THEN sysadmin_routes
    ELSE IF role = "all" THEN firehose_routes
    ELSE noc_routes

\* the values MCP_ROLE is started with
RoleValues ==
    {Absent, Val(<<>>),
     Val(<<"s", "y", "s", "a", "d", "m", "i", "n">>),
     Val(<<"S", "y", "s", "A", "d", "m", "i", "n">>),
     Val(<<"a", "l", "l">>),
     Val(<<"A", "L", "L">>),
     Val(<<"n", "o", "c">>),
     Val(<<"s", "y", "s", "a", "d", "m", "n">>)}

\* variant: the value is compared as it is written
Role_NoLower(x) == IF x.set THEN x.v ELSE <<"n", "o", "c">>

\* role = os.getenv("MCP_ROLE", "noc").lower()
Role(x) == Lower(IF x.set THEN x.v ELSE <<"n", "o", "c">>)

\* the branch of if role == "sysadmin" / elif role == "all" / else
RoleBranch(role) ==
    IF role = <<"s", "y", "s", "a", "d", "m", "i", "n">> THEN "sysadmin"
    ELSE IF role = <<"a", "l", "l">> THEN "all"
    ELSE "noc"

\* re.search(pattern, path)
PatternMatches(pattern, path) ==
    IF pattern.open THEN TRUE
    ELSE /\ Len(path) = Len(pattern.segs)
         /\ \A i \in 1..Len(path) :
               pattern.segs[i] = AnySeg \/ pattern.segs[i] = path[i]

\* a route map applies to an operation
RouteMatches(rm, method, path) ==
    method \in rm.methods /\ PatternMatches(rm.pattern, path)

\* FastMCP.from_openapi(route_maps=routes): the first route map that
\* applies decides; an operation no route map applies to becomes a tool
McpType(routes, method, path) ==
    LET hits == {i \in 1..Len(routes) : RouteMatches(routes[i], method, path)}
    IN  IF hits = {} THEN "TOOL"
        ELSE routes[CHOOSE i \in hits : \A j \in hits : i <= j].mcp_type

\* no operation mapped yet
NoRoute ==
    [env |-> Absent, role |-> "none", method |-> "GET", path |-> <<>>,
     mcp_type |-> "none"]

\* ---------------------------------------------------------- ISE list tools
\* ERS resources of the list tools
IseLists ==
    {"networkdevice", "identitygroup", "endpointgroup", "authorizationprofile",
     "networkaccess/policyset", "endpoint", "internaluser", "guestuser",
     "session", "profilerprofile", "sgt", "adminuser", "sxpconnections",
     "tacacscommandsets", "tacacsprofile"}

\* values of the size argument
Sizes == -1..MaxSize

\* variant: the size argument is sent as it is
ListParams_NoCap(page, size) == [page |-> page, size |-> size]

\* params = {"page": page, "size": min(size, 100)}
ListParams(page, size) == [page |-> page, size |-> Min(size, 100)]

\* ------------------------------------ Meraki: the response fixing client
\* a JSON value: its type and, for a string, its text, for another value
\* the text str() gives for it; absent marks a key the object does not have
JAbsent == [t |-> "absent", s |-> ""]
JNull == [t |-> "null", s |-> "None"]
JStr(x) == [t |-> "str", s |-> x]
JNum == [t |-> "num", s |-> "7"]
JList == [t |-> "list", s |-> "[]"]

\* the keys request looks at; "network.name" is the key name of an object
\* under the key network
upgrade_markers == {"upgradeId", "upgradeBatchId", "completedAt"}
network_markers == {"enrollmentString", "productTypes"}
device_markers == {"serial", "lanIp", "model"}
upgrade_string_fields ==
    {"upgradeId", "upgradeBatchId", "status", "time", "completedAt"}
upgrade_nested_fields ==
    {"network.id", "network.name",
     "fromVersion.id", "fromVersion.firmware", "fromVersion.shortName",
     "toVersion.id", "toVersion.firmware", "toVersion.shortName"}
string_fields == {"enrollmentString", "notes", "url", "timeZone", "name"}
device_string_fields ==
    {"lanIp", "wan1Ip", "wan2Ip", "name", "notes", "address", "firmware",
     "mac", "model", "serial", "imei"}

\* the keys and values of the items the upstream sends
ItemFields ==
    {"upgradeId", "productTypes", "name", "tags", "serial", "network.name", "id"}
Items ==
    LET FieldValues(f) ==
            CASE f \in {"upgradeId", "network.name"} -> {JAbsent, JNull, JStr("u1")}
              [] f \in {"productTypes", "tags"} -> {JAbsent, JNull, JList}
              [] f \in {"name", "serial"} -> {JAbsent, JNull, JStr("Q2"), JNum}
              [] OTHER -> {JNull, JNum}
    IN  {i \in [ItemFields -> {JAbsent, JNull, JStr("u1"), JStr("Q2"), JNum, JList}] :
            \A f \in ItemFields : i[f] \in FieldValues(f)}

\* a response body: a JSON list of objects, one JSON object, or text that
\* is no JSON; bytes tells the upstream's bytes from those of json.dumps
MerakiBodies ==
    {[kind |-> k, items |-> <<i>>, bytes |-> "upstream"] :
        k \in {"list", "dict"}, i \in Items}
    \cup {[kind |-> "list", items |-> <<>>, bytes |-> "upstream"],
          [kind |-> "text", items |-> <<>>, bytes |-> "upstream"]}

MerakiUrls ==
    {<<"/", "o", "r", "g", "a", "n", "i", "z", "a", "t", "i", "o", "n", "s", "/", "x", "/", "n", "e", "t", "w", "o", "r", "k", "s">>,
     <<"/", "o", "r", "g", "a", "n", "i", "z", "a", "t", "i", "o", "n", "s", "/", "x", "/", "d", "e", "v", "i", "c", "e", "s">>,
     <<"/", "o", "r", "g", "a", "n", "i", "z", "a", "t", "i", "o", "n", "s", "/", "x", "/", "f", "i", "r", "m", "w", "a", "r", "e", "/", "u", "p", "g", "r", "a", "d", "e", "s">>,
     <<"/", "o", "r", "g", "a", "n", "i", "z", "a", "t", "i", "o", "n", "s">>}

Has(item, keys) == \E f \in keys \cap ItemFields : item[f].t # "absent"

\* variant: a value that is no string is left as it is
FixDeviceString_NullOnly(v) == IF v.t = "null" THEN JStr("") ELSE v

\* if item[field] is None: "" / elif not isinstance(item[field], str): str()
FixDeviceString(v) ==
    IF v.t = "null" THEN JStr("")
    ELSE IF v.t # "str" THEN JStr(v.s)
    ELSE v

\* the body of the loop over the items of the list:
\* if item[field] is None: item[field] = "" for a string field, [] for a list
FixItem(item) ==
    LET FixString(v) == IF v.t = "null" THEN JStr("") ELSE v
        FixList(v) == IF v.t = "null" THEN JList ELSE v
    IN
    [f \in ItemFields |->
        IF item[f].t = "absent" THEN item[f]
        ELSE IF Has(item, upgrade_markers)
        THEN IF f \in upgrade_string_fields \cup upgrade_nested_fields
             THEN FixString(item[f])
             ELSE IF f = "productTypes" THEN FixList(item[f])
             ELSE item[f]
        ELSE IF Has(item, network_markers)
        THEN IF f \in string_fields THEN FixString(item[f])
             ELSE IF f = "tags" THEN FixList(item[f])
             ELSE item[f]
        ELSE IF Has(item, device_markers)
        THEN IF f \in device_string_fields THEN FixDeviceString(item[f])
             ELSE IF f = "tags" THEN FixList(item[f])
             ELSE item[f]
        ELSE item[f]]

\* the test on the URL and the status
FixApplies(url, st) ==
    /\ \/ Contains(url, <<"/", "n", "e", "t", "w", "o", "r", "k", "s">>)
       \/ Contains(url, <<"/", "d", "e", "v", "i", "c", "e", "s">>)
       \/ Contains(url, <<"/", "f", "i", "r", "m", "w", "a", "r", "e", "/", "u", "p", "g", "r", "a", "d", "e", "s">>)
    /\ st = 200

\* MerakiResponseFixingClient.request after the base client's answer: the
\* body it returns (response.json() raises on text and the body is kept)
FixResponse(url, st, body) ==
    IF FixApplies(url, st) /\ body.kind # "text"
    THEN [kind |-> body.kind,
          items |-> IF body.kind = "list"
                    THEN [n \in DOMAIN body.items |-> FixItem(body.items[n])]
                    ELSE body.items,
          bytes |-> "dumps"]
    ELSE body

\* ------------------------------------------------------------------ Init
Init ==
    /\ phase = "boot"
    /\ token = NoToken
    /\ issued = 0
    /\ call = IdleCall
    /\ bg = IdleBg
    /\ plain = NoPlain
    /\ boot = NoProcess
    /\ ssh = IdleSsh
    /\ route = NoRoute

\* ---------------------------------------------------------------- actions
\* __main__: catc_api.authenticate(), then mcp.run or exit(1)
StartupAuth(o) ==
    /\ phase = "boot"
    /\ o = "ok" => issued < MaxTok
    /\ token' = AuthStore(token, o, issued + 1)
    /\ issued' = IF o = "ok" THEN issued + 1 ELSE issued
    /\ phase' = IF AuthReturns(o) THEN "serving" ELSE "exited"
    /\ UNCHANGED <<call, bg, plain, ext>>

\* entry of a tool: argument check of resolve_issues, then the
\* "if not self.token" test of the first _get_headers()
Begin(op, empty, arg) ==
    /\ phase = "serving"
    /\ call.pc = "idle"
    /\ empty => op = "resolve"
    /\ call' =
          IF empty
          THEN [IdleCall EXCEPT !.op = op, !.arg = arg,
                    !.out = [kind |-> "NoIds", status |-> 0, val |-> NoVal]]
          ELSE IF NeedsAuth(token)
          THEN [IdleCall EXCEPT !.op = op, !.arg = arg, !.pc = "login0",
                    !.nAuth = 1]
          ELSE [IdleCall EXCEPT !.op = op, !.arg = arg, !.pc = "hdr0"]
    /\ UNCHANGED <<phase, token, issued, bg, plain, ext>>

\* variants: retry by starting the request sequence over / authenticate
\* until a token is present
AfterAuthOk_Loop(pc) ==
    IF pc = "login0" THEN "hdr0" ELSE IF pc = "login1" THEN "hdr0" ELSE "hdr2"

AfterAuthOk_Recheck(pc) ==
    IF pc = "login0" THEN "hdr0" ELSE "chk2"

\* position reached when an authenticate() started at pc returned True
AfterAuthOk(pc) ==
    IF pc = "login0" THEN "hdr0" ELSE IF pc = "login1" THEN "chk2" ELSE "hdr2"

\* variant: a failed re-authentication raises the authentication error
AfterAuthFail_Raise(c) ==
    IF c.pc = "login0" THEN AuthError ELSE RaiseInTry(c.op, "AuthError")

\* outcome of the call when an authenticate() started at c.pc returned False
AfterAuthFail(c) ==
    IF c.pc = "login0" THEN AuthError
    ELSE IF c.pc = "login1" THEN Finish(c.op, c.st, c.body)
    ELSE RaiseInTry(c.op, "AuthError")

\* variant: a refused re-authentication is tried a second time
AuthDone_Again(o) ==
    /\ call.pc \in {"login0", "login1", "login2"}
    /\ o = "ok" => issued < MaxTok
    /\ token' = AuthStore(token, o, issued + 1)
    /\ issued' = IF o = "ok" THEN issued + 1 ELSE issued
    /\ call' =
          IF AuthReturns(o)
          THEN [call EXCEPT !.pc = AfterAuthOk(call.pc), !.ret = "true",
                    !.own = AuthStore(token, o, issued + 1)]
          ELSE IF call.nAuth < 2
          THEN [call EXCEPT !.nAuth = @ + 1, !.ret = "false"]
          ELSE [call EXCEPT !.pc = "idle", !.ret = "false", !.at = call.pc,
                    !.out = AfterAuthFail(call)]
    /\ UNCHANGED <<phase, bg, plain, ext>>

\* the login answer arrives: rest of authenticate() and the caller's test
AuthDone(o) ==
    /\ call.pc \in {"login0", "login1", "login2"}
    /\ o = "ok" => issued < MaxTok
    /\ token' = AuthStore(token, o, issued + 1)
    /\ issued' = IF o = "ok" THEN issued + 1 ELSE issued
    /\ call' =
          IF AuthReturns(o)
          THEN [call EXCEPT !.pc = AfterAuthOk(call.pc), !.ret = "true",
                    !.own = AuthStore(token, o, issued + 1)]
          ELSE [call EXCEPT !.pc = "idle", !.ret = "false", !.at = call.pc,
                    !.out = AfterAuthFail(call)]
    /\ UNCHANGED <<phase, bg, plain, ext>>

\* _get_headers() after a successful re-authentication: "if not self.token"
Check2 ==
    /\ call.pc = "chk2"
    /\ call' =
          IF NeedsAuth(token)
          THEN [call EXCEPT !.pc = "login2", !.nAuth = @ + 1]
          ELSE [call EXCEPT !.pc = "hdr2"]
    /\ UNCHANGED <<phase, token, issued, bg, plain, ext>>

\* variant: the replay is sent with the headers of the first attempt
SendData_Stale ==
    /\ call.pc \in {"hdr0", "hdr2"}
    /\ call' = [call EXCEPT !.pc = IF call.pc = "hdr0" THEN "wait1" ELSE "wait2",
                            !.hdr = IF call.pc = "hdr0" THEN token ELSE @,
                            !.nData = @ + 1,
                            !.sent = Append(@, [method |-> Method(call.op),
                                                target |-> call.arg,
                                                token |-> IF call.pc = "hdr0"
                                                          THEN token ELSE call.hdr])]
    /\ UNCHANGED <<phase, token, issued, bg, plain, ext>>

\* headers built from self.token, data request sent
SendData ==
    /\ call.pc \in {"hdr0", "hdr2"}
    /\ call' = [call EXCEPT !.pc = IF call.pc = "hdr0" THEN "wait1" ELSE "wait2",
                            !.hdr = token, !.nData = @ + 1,
                            !.sent = Append(@, [method |-> Method(call.op),
                                                target |-> call.arg,
                                                token |-> token])]
    /\ UNCHANGED <<phase, token, issued, bg, plain, ext>>

\* variant: every 401 answer is retried
RecvData_Retry(st, body) ==
    /\ call.pc \in {"wait1", "wait2"}
    /\ call' =
          IF st = 401
          THEN [call EXCEPT !.pc = "login1", !.st = st, !.body = body,
                    !.nAuth = @ + 1]
          ELSE [call EXCEPT !.pc = "idle", !.st = st, !.body = body,
                    !.at = call.pc, !.out = Finish(call.op, st, body)]
    /\ UNCHANGED <<phase, token, issued, bg, plain, ext>>

\* the data answer arrives: 401 test, raise_for_status, response.json()
RecvData(st, body) ==
    /\ call.pc \in {"wait1", "wait2"}
    /\ call' =
          IF call.pc = "wait1" /\ st = 401
          THEN [call EXCEPT !.pc = "login1", !.st = st, !.body = body,
                    !.nAuth = @ + 1]
          ELSE [call EXCEPT !.pc = "idle", !.st = st, !.body = body,
                    !.at = call.pc, !.out = Finish(call.op, st, body)]
    /\ UNCHANGED <<phase, token, issued, bg, plain, ext>>

\* the data request fails in transport: session.get / session.post raises
ConnFail ==
    /\ call.pc \in {"wait1", "wait2"}
    /\ call' = [call EXCEPT !.pc = "idle", !.at = call.pc,
                            !.out = RaiseInTry(call.op, "ConnError")]
    /\ UNCHANGED <<phase, token, issued, bg, plain, ext>>

\* ------------------------------------------ the call on the other worker
\* the same sequence, of which the position is kept and, inside
\* authenticate(), the value about to be assigned to self.token
BgBegin ==
    /\ phase = "serving"
    /\ bg.pc = "idle"
    /\ bg' = [bg EXCEPT !.pc = IF NeedsAuth(token) THEN "login0" ELSE "hdr0"]
    /\ UNCHANGED <<phase, token, issued, call, plain, ext>>

\* authenticate(): session.post(auth_url) returns, the answer is read
BgLoginAnswer(o) ==
    /\ bg.pc \in {"login0", "login1", "login2"}
    /\ o = "ok" => issued < MaxTok
    /\ issued' = IF o = "ok" THEN issued + 1 ELSE issued
    /\ bg' = IF AuthReturns(o)
             THEN [pc |-> "store", from |-> bg.pc,
                   got |-> AuthStore(token, o, issued + 1)]
             ELSE IdleBg
    /\ UNCHANGED <<phase, token, call, plain, ext>>

\* authenticate(): self.token = response.json().get("Token"), return True
BgStore ==
    /\ bg.pc = "store"
    /\ token' = bg.got
    /\ bg' = [pc |-> AfterAuthOk(bg.from), from |-> "idle", got |-> NoToken]
    /\ UNCHANGED <<phase, issued, call, plain, ext>>

BgCheck2 ==
    /\ bg.pc = "chk2"
    /\ bg' = [bg EXCEPT !.pc = IF NeedsAuth(token) THEN "login2" ELSE "hdr2"]
    /\ UNCHANGED <<phase, token, issued, call, plain, ext>>

BgSendData ==
    /\ bg.pc \in {"hdr0", "hdr2"}
    /\ bg' = [bg EXCEPT !.pc = IF bg.pc = "hdr0" THEN "wait1" ELSE "wait2"]
    /\ UNCHANGED <<phase, token, issued, call, plain, ext>>

BgRecvData(st) ==
    /\ bg.pc \in {"wait1", "wait2"}
    /\ bg' = [bg EXCEPT !.pc = IF bg.pc = "wait1" /\ st = 401 THEN "login1" ELSE "idle"]
    /\ UNCHANGED <<phase, token, issued, call, plain, ext>>

\* variant: a 401 answer is followed by a second request
PlainGet_Replay(c, st, body) ==
    /\ plain' = [client |-> c, st |-> st, body |-> body,
                 n |-> IF st = 401 THEN 2 ELSE 1,
                 out |-> IF c = "ise" THEN IseFinish(st, body) ELSE TeFinish(st, body)]
    /\ UNCHANGED <<phase, token, issued, call, bg, ext>>

\* ------------------------------------- get of the ISE / ThousandEyes client
\* one request, no token handling, no replay
PlainGet(c, st, body) ==
    /\ plain' = [client |-> c, st |-> st, body |-> body, n |-> 1,
                 out |-> IF c = "ise" THEN IseFinish(st, body) ELSE TeFinish(st, body)]
    /\ UNCHANGED <<phase, token, issued, call, bg, ext>>

\* the request fails in transport: session.get raises, get re-raises
PlainConnFail(c) ==
    /\ plain' = [client |-> c, st |-> 0, body |-> NoBody, n |-> 1,
                 out |-> [kind |-> "ConnError", status |-> 0, val |-> NoVal]]
    /\ UNCHANGED <<phase, token, issued, call, bg, ext>>

\* -------------------------------------------------- call of a Splunk tool
\* call_splunk_mcp: one post, no token handling, no replay
call_splunk_mcp(st, body) ==
    /\ plain' = [client |-> "splunk", st |-> st, body |-> body, n |-> 1,
                 out |-> SplunkFinish(st, body)]
    /\ UNCHANGED <<phase, token, issued, call, bg, ext>>

\* the post fails in transport: http_client.post raises, re-raised
SplunkConnFail ==
    /\ plain' = [client |-> "splunk", st |-> 0, body |-> NoBody, n |-> 1,
                 out |-> [kind |-> "ConnError", status |-> 0, val |-> "none"]]
    /\ UNCHANGED <<phase, token, issued, call, bg, ext>>

\* ------------------------------------------------- call of an ISE list tool
\* ise_get_network_devices and the other list tools without a filter: the
\* query parameters, then ise_api.get (st = 0: no answer, session.get raises)
ise_list_tool(resource, page, size, st, body) ==
    /\ plain' = [client |-> "ise", st |-> st, body |-> body, n |-> 1,
                 out |-> IF st = 0
                         THEN [kind |-> "ConnError", status |-> 0, val |-> NoVal]
                         ELSE IseFinish(st, body),
                 endpoint |-> resource,
                 args |-> [page |-> page, size |-> size],
                 params |-> ListParams(page, size)]
    /\ UNCHANGED <<phase, token, issued, call, bg, ext>>

\* ------------------------------------- a request of the Meraki HTTP client
\* MerakiResponseFixingClient.request: the base client's answer, fixed
request(url, st, body) ==
    /\ plain' = [client |-> "meraki", st |-> st, body |-> body, n |-> 1,
                 out |-> FixResponse(url, st, body), url |-> url]
    /\ UNCHANGED <<phase, token, issued, call, bg, ext>>

\* ------------------------------------------------------ start of a process
\* load_dotenv and the os.getenv calls of the module
LoadEnv(a, env) ==
    /\ boot.pc = "off"
    /\ boot' = [NoProcess EXCEPT !.adapter = a, !.pc = "env", !.env = env]
    /\ UNCHANGED <<http, ssh, route>>

\* the validation of the required variables and the prints that follow it
CheckEnv ==
    /\ boot.pc = "env"
    /\ boot' =
          IF ValidateEnv(boot.adapter, boot.env) = "ok"
          THEN [boot EXCEPT !.pc = "valid",
                    !.line = KeyLine(boot.adapter, boot.env)]
          ELSE [boot EXCEPT !.pc = "failed",
                    !.exit = ValidateEnv(boot.adapter, boot.env)]
    /\ UNCHANGED <<http, ssh, route>>

\* the API client object is constructed (the IOS XE program has none)
CreateClient ==
    /\ boot.pc = "valid"
    /\ boot' = [boot EXCEPT !.client = (boot.adapter # "ios_xe"),
                   !.pc = IF boot.adapter \in Probing THEN "client" ELSE "ready"]
    /\ UNCHANGED <<http, ssh, route>>

\* variant: a failed test is printed and the start goes on
ConnectivityTest_Continue(ok) ==
    /\ boot.pc = "client"
    /\ boot' = IF ok
               THEN [boot EXCEPT !.net = @ + 1, !.pc = "ready", !.probe = "ok"]
               ELSE [boot EXCEPT !.net = @ + 1, !.pc = "ready", !.probe = "failed"]
    /\ UNCHANGED <<http, ssh, route>>

\* __main__: the request that tests the upstream, exit(1) when it fails
\* (authenticate() returns False, or the get raises)
ConnectivityTest(ok) ==
    /\ boot.pc = "client"
    /\ boot' = IF ok
               THEN [boot EXCEPT !.net = @ + 1, !.pc = "ready", !.probe = "ok"]
               ELSE [boot EXCEPT !.net = @ + 1, !.pc = "failed",
                         !.exit = "exit1", !.probe = "failed"]
    /\ UNCHANGED <<http, ssh, route>>

\* __main__: mcp.run
McpRun ==
    /\ boot.pc = "ready"
    /\ boot' = [boot EXCEPT !.listen = TRUE, !.pc = "listening"]
    /\ UNCHANGED <<http, ssh, route>>

\* ------------------------------------------------------- IOS XE tool calls
IosXeServing == boot.pc = "listening" /\ boot.adapter = "ios_xe"

\* DEFAULT_PASSWORD of the running IOS XE program
DEFAULT_PASSWORD == boot.env["IOS_XE_PASSWORD"]

\* show_command up to the with statement
show_command(command, host) ==
    /\ IosXeServing
    /\ ssh.pc = "idle"
    /\ ssh' =
          IF host = <<>>
          THEN [IdleSsh EXCEPT !.tool = "show", !.host = host,
                    !.command = command,
                    !.result = [kind |-> "hostreq", text |-> HostRequired]]
          ELSE [IdleSsh EXCEPT !.tool = "show", !.host = host,
                    !.command = command, !.pc = "conn",
                    !.masked = mask_password(DEFAULT_PASSWORD)]
    /\ UNCHANGED <<http, boot, route>>

\* variant: the commands argument is not checked
config_command_NoListCheck(commands, host) ==
    /\ IosXeServing
    /\ ssh.pc = "idle"
    /\ ssh' =
          IF host = <<>>
          THEN [IdleSsh EXCEPT !.tool = "config", !.host = host,
                    !.commands = commands,
                    !.result = [kind |-> "hostreq", text |-> HostRequired]]
          ELSE [IdleSsh EXCEPT !.tool = "config", !.host = host,
                    !.commands = commands, !.pc = "conn",
                    !.masked = mask_password(DEFAULT_PASSWORD)]
    /\ UNCHANGED <<http, boot, route>>

\* config_command up to the with statement
config_command(commands, host) ==
    /\ IosXeServing
    /\ ssh.pc = "idle"
    /\ ssh' =
          IF host = <<>>
          THEN [IdleSsh EXCEPT !.tool = "config", !.host = host,
                    !.commands = commands,
                    !.result = [kind |-> "hostreq", text |-> HostRequired]]
          ELSE IF commands.items = <<>> \/ ~commands.isList
          THEN [IdleSsh EXCEPT !.tool = "config", !.host = host,
                    !.commands = commands,
                    !.result = [kind |-> "cmdsreq", text |-> CommandsRequired]]
          ELSE [IdleSsh EXCEPT !.tool = "config", !.host = host,
                    !.commands = commands, !.pc = "conn",
                    !.masked = mask_password(DEFAULT_PASSWORD)]
    /\ UNCHANGED <<http, boot, route>>

\* ConnectHandler(**device): the session is established, or it raises and
\* no connection object exists
ConnectHandler(e) ==
    /\ ssh.pc = "conn"
    /\ ssh' =
          IF e = NoErr
          THEN [ssh EXCEPT !.opened = @ + 1,
                    !.pc = IF ssh.tool = "show" THEN "cmd" ELSE "cfg"]
          ELSE Except(ssh, DEFAULT_PASSWORD.v, e)
    /\ UNCHANGED <<http, boot, route>>

\* show_command: conn.send_command(command), end of the with block, return
send_command(e) ==
    /\ ssh.pc = "cmd"
    /\ LET s1 == [ssh EXCEPT !.sent = Append(@, [m |-> "send_command",
                                                 arg |-> <<ssh.command>>])]
           s2 == ExitWith(s1, e # NoErr)
       IN  ssh' = IF e = NoErr
                  THEN [s2 EXCEPT !.pc = "idle",
                           !.result = [kind |-> "output", text |-> <<>>]]
                  ELSE Except(s2, DEFAULT_PASSWORD.v, e)
    /\ UNCHANGED <<http, boot, route>>

\* variant: a failure of send_config_set is swallowed and the block goes on
send_config_set_Continue(e) ==
    /\ ssh.pc = "cfg"
    /\ LET s1 == [ssh EXCEPT !.sent = Append(@, [m |-> "send_config_set",
                                                 arg |-> ssh.commands.items])]
       IN  ssh' = [s1 EXCEPT !.pc = "save", !.err = e]
    /\ UNCHANGED <<http, boot, route>>

\* config_command: conn.send_config_set(commands)
send_config_set(e) ==
    /\ ssh.pc = "cfg"
    /\ LET s1 == [ssh EXCEPT !.sent = Append(@, [m |-> "send_config_set",
                                                 arg |-> ssh.commands.items])]
       IN  ssh' = IF e = NoErr
                  THEN [s1 EXCEPT !.pc = "save"]
                  ELSE Except(ExitWith(s1, TRUE), DEFAULT_PASSWORD.v, e)
    /\ UNCHANGED <<http, boot, route>>

\* config_command: conn.send_command("write memory"), end of the with
\* block, return
write_memory(e) ==
    /\ ssh.pc = "save"
    /\ LET s1 == [ssh EXCEPT !.sent = Append(@, [m |-> "send_command",
                                                 arg |-> <<"write memory">>])]
           s2 == ExitWith(s1, e # NoErr)
       IN  ssh' = IF e = NoErr
                  THEN [s2 EXCEPT !.pc = "idle",
                           !.result = [kind |-> "applied",
                                       text |-> AppliedPrefix \o ssh.host]]
                  ELSE Except(s2, DEFAULT_PASSWORD.v, e)
    /\ UNCHANGED <<http, boot, route>>

\* ------------------------------------------------- Meraki server creation
\* the role selection, then FastMCP.from_openapi maps one operation of the
\* OpenAPI document under the selected route list
from_openapi(env, method, path) ==
    /\ route = NoRoute
    /\ route' = [env |-> env, role |-> RoleBranch(Role(env)),
                 method |-> method, path |-> path,
                 mcp_type |-> McpType(selected_routes(RoleBranch(Role(env))),
                                      method, path)]
    /\ UNCHANGED <<http, boot, ssh>>

\* ------------------------------------------------------------------ Next
Step ==
    \/ \E o \in LoginOutcomes : AuthDone(o)
    \/ Check2
    \/ SendData
    \/ \E st \in DataStatuses, b \in Bodies : RecvData(st, b)
    \/ ConnFail

BgStep ==
    \/ BgBegin
    \/ \E o \in LoginOutcomes : BgLoginAnswer(o)
    \/ BgStore
    \/ BgCheck2
    \/ BgSendData
    \/ \E st \in DataStatuses : BgRecvData(st)

\* tool calls handled one at a time
Next ==
    \/ \E o \in LoginOutcomes : StartupAuth(o)
    \/ \E op \in Ops, e \in BOOLEAN, a \in Args : Begin(op, e, a)
    \/ Step

\* tool calls handled by worker threads
NextConc ==
    \/ \E o \in LoginOutcomes : StartupAuth(o)
    \/ \E op \in Ops, e \in BOOLEAN, a \in Args : Begin(op, e, a)
    \/ Step
    \/ BgStep

\* the three HTTP clients side by side
NextHttp ==
    \/ \E o \in LoginOutcomes : StartupAuth(o)
    \/ \E op \in Ops, e \in BOOLEAN, a \in Args : Begin(op, e, a)
    \/ Step
    \/ \E c \in PlainClients, st \in DataStatuses, b \in Bodies : PlainGet(c, st, b)
    \/ \E c \in PlainClients : PlainConnFail(c)

\* the start of one adapter process
BootStep ==
    \/ \E a \in Adapters : \E env \in Envs(a) : LoadEnv(a, env)
    \/ CheckEnv
    \/ CreateClient
    \/ \E ok \in BOOLEAN : ConnectivityTest(ok)
    \/ McpRun

NextBoot == BootStep

\* the exceptions the device and the library can raise in the running program
ConnErrs == Raised("auth", DEFAULT_PASSWORD.v) \cup Raised("conn", DEFAULT_PASSWORD.v)
CmdErrs == Raised("cmd", DEFAULT_PASSWORD.v)

\* the IOS XE program and its tool calls, handled one at a time
SshStep ==
    \/ \E h \in Hosts : show_command("show version", h)
    \/ \E c \in CommandArgs, h \in Hosts : config_command(c, h)
    \/ \E e \in {NoErr} \cup ConnErrs : ConnectHandler(e)
    \/ \E e \in {NoErr} \cup CmdErrs : send_command(e)
    \/ \E e \in {NoErr} \cup CmdErrs : send_config_set(e)
    \/ \E e \in {NoErr} \cup CmdErrs : write_memory(e)

NextSsh ==
    \/ BootStep
    \/ IosXeServing /\ SshStep

\* a tool call of the running ISE, ThousandEyes or Splunk program
PlainStep ==
    \/ \E c \in PlainClients, st \in DataStatuses, b \in Bodies :
          c = boot.adapter /\ PlainGet(c, st, b)
    \/ \E c \in PlainClients : c = boot.adapter /\ PlainConnFail(c)
    \/ \E st \in DataStatuses, b \in SplunkBodies :
          boot.adapter = "splunk" /\ call_splunk_mcp(st, b)
    \/ boot.adapter = "splunk" /\ SplunkConnFail

\* one program per process: the Catalyst Center program with its tool
\* calls, or another program from its start to its tool calls
NextTools ==
    \/ boot.pc = "off" /\ Next
    \/ phase = "boot" /\ BootStep
    \/ phase = "boot" /\ IosXeServing /\ SshStep
    \/ phase = "boot" /\ boot.pc = "listening" /\ PlainStep

\* the operations of the OpenAPI document under each role
NextRoutes ==
    /\ route = NoRoute
    /\ \E r \in RoleValues, m \in Methods, p \in Paths : from_openapi(r, m, p)

\* one call of an ISE list tool
NextIse ==
    /\ plain = NoPlain
    /\ \E r \in IseLists, pg \in {1, 2}, sz \in Sizes,
          st \in DataStatuses \cup {0}, b \in Bodies :
          ise_list_tool(r, pg, sz, IF st = 0 THEN 0 ELSE st,
                        IF st = 0 THEN NoBody ELSE b)

\* the running program after its credentials have become invalid: the
\* upstream refuses every login and answers every data request 401
NextRefused ==
    \/ \E o \in LoginOutcomes : StartupAuth(o)
    \/ \E op \in Ops, e \in BOOLEAN, a \in Args : Begin(op, e, a)
    \/ \E o \in LoginOutcomes \ {"ok", "notoken"} : AuthDone(o)
    \/ SendData
    \/ \E b \in Bodies : RecvData(401, b)

\* one request of the Meraki HTTP client
NextFix ==
    /\ plain = NoPlain
    /\ \E u \in MerakiUrls, st \in {200, 404}, b \in MerakiBodies :
          request(u, st, b)

Spec == Init /\ [][Next]_vars

\* every request sent is answered (by a status or a transport failure)
FairSpec == Spec /\ WF_vars(Step)

SpecHttp == Init /\ [][NextHttp]_vars

SpecConc == Init /\ [][NextConc]_vars

SpecBoot == Init /\ [][NextBoot]_vars

SpecSsh == Init /\ [][NextSsh]_vars

SpecTools == Init /\ [][NextTools]_vars

SpecRoutes == Init /\ [][NextRoutes]_vars

SpecIse == Init /\ [][NextIse]_vars

SpecRefused == Init /\ [][NextRefused]_vars

SpecFix == Init /\ [][NextFix]_vars

TypeOK ==
    /\ phase \in {"boot", "serving", "exited"}
    /\ token \in 0..MaxTok
    /\ issued \in 0..MaxTok
    /\ call.nAuth \in 0..3 /\ call.nData \in 0..2

\* ------------------------------------------------------------- properties
Logins == {"login0", "login1", "login2"}

\* a call that went through the request sequence has ended
Finished == call.pc = "idle" /\ call.at # "none"

\* the call is one of CatalystCenterAPI.get / post
PlainOp == call.op \in {"get", "post"}

\* the call ended on a data response (the first one or the replayed one)
HasFinal ==
    /\ Finished
    /\ call.at \in {"wait1", "wait2", "login1"}
    /\ call.out.kind # "ConnError"

\* every data request of the ended call was answered 401
AllData401 == HasFinal /\ call.st = 401

HTTPError401 == [kind |-> "HTTPError", status |-> 401, val |-> NoVal]

\* this step completes an authenticate() of the call with the result False
AuthFailStep ==
    /\ call.pc \in Logins
    /\ call'.pc # call.pc
    /\ call'.ret = "false"

\* this step sends a login request on behalf of the call
LoginSentStep == call'.pc \in Logins /\ call'.pc # call.pc

C3_NoWayBack == AuthFailStep => call'.pc = "idle"

C3_ReplayOnce ==
    (call'.pc = "wait2" /\ call.pc # "wait2")
        => call.nData = 1 /\ call'.nData = 2 /\ call.ret = "true"

C3_OneCycle ==
    /\ [](call.nData <= 2)
    /\ [][C3_NoWayBack /\ C3_ReplayOnce]_vars
    /\ (call.pc # "idle") ~> (call.pc = "idle")

C3_Witness == Finished /\ call.nData = 2 /\ call.op = "issues"

\* C4: a call sends a login request only when the token is absent or the
\* first data request was answered 401; a call that finds a token cached and
\* gets no 401 ends without any login request.
C4_LoginOnlyWhenNeeded ==
    LoginSentStep => \/ token = NoToken
                     \/ call.pc = "wait1" /\ call'.st = 401

C4_TokenReuse ==
    /\ [][C4_LoginOnlyWhenNeeded]_vars
    /\ [](HasFinal /\ call.at = "wait1" /\ call.hdr # NoToken /\ call.ret = "none"
              => call.nAuth = 0)

C4_Witness ==
    /\ Finished /\ PlainOp /\ call.at = "wait1"
    /\ call.hdr # NoToken /\ call.nAuth = 0 /\ call.out.kind = "return"

C6_AuthFirst ==
    (call.pc = "idle" /\ call'.pc # "idle" /\ token = NoToken)
        => call'.pc = "login0" /\ call'.nAuth = 1 /\ call'.nData = 0

C6_NoTokenFails ==
    /\ [](call.pc = "login0" => call.nData = 0)
    /\ [](Finished /\ call.at = "login0"
              => /\ call.out = AuthError
                 /\ call.nData = 0
                 /\ phase = "serving"
                 /\ token = NoToken)
    /\ [][C6_AuthFirst]_vars

C6_Witness ==
    /\ Finished /\ PlainOp /\ call.at = "login0"
    /\ call.out = AuthError /\ token = NoToken

\* C7 (as stated): after an authenticate() that returned False no token is
\* cached, whatever was cached before.
C7_AsStated == [][AuthFailStep => token' = NoToken]_vars

\* C7 (amended): authenticate() never raises; when it returns False the
\* session token is what it was before the attempt (unset only if it was
\* unset before).
C7_FailKeepsToken ==
    [][/\ AuthFailStep => token' = token
       /\ (call.pc \in Logins /\ call'.pc # call.pc)
              => call'.ret \in {"true", "false"}
                 /\ (call'.ret = "false" <=> call'.pc = "idle")]_vars

C7_Witness ==
    /\ Finished /\ call.at = "login1" /\ call.ret = "false"
    /\ token # NoToken

C9_PassThrough ==
    /\ (HasFinal /\ PlainOp /\ call.st = 200 /\ call.body.json)
           => call.out.kind = "return" /\ call.out.val = call.body.val
    /\ (plain.client \in PlainClients /\ plain.st = 200 /\ plain.body.json)
           => plain.out.kind = "return" /\ plain.out.val = plain.body.val

C9_Witness ==
    /\ HasFinal /\ PlainOp /\ call.at = "wait2" /\ call.st = 200
    /\ call.out.kind = "return" /\ call.out.val = PList
    /\ plain.client = "ise" /\ plain.out.kind = "return" /\ plain.out.val = PDict

\* C10: the token a call sends in its replay is the token stored by that
\* call's own latest authenticate(), also when another call re-authenticates
\* at the same time.
C10_ReplayOwnToken == call.pc = "wait2" => call.hdr = call.own

\* ------------------------------------------------------ IOS XE properties
\* a tool call that went past its argument checks has returned
SshReturned == ssh.pc = "idle" /\ ssh.masked # <<>>

\* the two things config_command sends
SentConfig == [m |-> "send_config_set", arg |-> ssh.commands.items]
SentSave == [m |-> "send_command", arg |-> <<"write memory">>]

\* C11: show_command and config_command open at most one connection; while
\* the with block runs it is open, and when the tool has returned, normally
\* or through a raised command, every connection it opened has been closed
\* exactly once.
C11_ClosedOnce ==
    /\ ssh.opened <= 1
    /\ ssh.closed <= ssh.opened
    /\ ssh.pc \in {"cmd", "cfg", "save"} => ssh.opened = 1 /\ ssh.closed = 0
    /\ ssh.pc \in {"idle", "conn"} => ssh.closed = ssh.opened

C11_Witness ==
    /\ SshReturned
    /\ ssh.err.origin = "cmd"
    /\ ssh.opened = 1
    /\ ssh.closed = 1

\* C12: config_command sends the whole commands list, in the caller's order,
\* in one send_config_set and after it "write memory" once, on the one
\* connection it opened; "write memory" is sent only from the position
\* reached when send_config_set returned without raising, and the
\* "Configuration successfully applied" result is returned only after both
\* sends returned.
C12_ConfigThenSave ==
    /\ [](ssh.tool = "config" =>
            /\ ssh.sent \in {<<>>, <<SentConfig>>, <<SentConfig, SentSave>>}
            /\ ssh.pc = "save" => ssh.sent = <<SentConfig>> /\ ssh.err = NoErr
            /\ ssh.result.kind = "applied" =>
                  /\ ssh.sent = <<SentConfig, SentSave>>
                  /\ ssh.err = NoErr
                  /\ ssh.opened = 1)
    /\ [][(ssh.tool = "config" /\ Len(ssh'.sent) = 2 /\ Len(ssh.sent) < 2)
            => ssh.pc = "save" /\ ssh.err = NoErr]_vars

C12_Witness ==
    /\ ssh.result.kind = "applied"
    /\ Len(ssh.commands.items) = 2
    /\ ssh.commands.items[1] # ssh.commands.items[2]

\* C13: a failed show_command / config_command returns the "Authentication
\* to device failed" text exactly when the failure was raised while
\* connecting or authenticating, never for a failure raised by a command on
\* the open connection.
C13_AsStated ==
    (SshReturned /\ ssh.err # NoErr) =>
        (ssh.result.kind = "autherr" <=> ssh.err.origin \in {"auth", "conn"})

\* C14: when the text of the failure contains the password, neither the
\* string the tool returns nor the line it logs contains the password.
C14_AsStated ==
    (SshReturned /\ ssh.err # NoErr
        /\ Contains(ssh.err.text, DEFAULT_PASSWORD.v)) =>
        /\ ~Contains(ssh.result.text, DEFAULT_PASSWORD.v)
        /\ ~Contains(ssh.logged, DEFAULT_PASSWORD.v)

\* ---------------------------------------------------- start-up properties
\* the API key of the started program
ApiKey ==
    CASE boot.adapter = "meraki" -> boot.env["MERAKI_KEY"].v
      [] boot.adapter = "te" -> boot.env["TE_TOKEN"].v
      [] boot.adapter = "splunk" -> boot.env["SPLUNK_API_KEY"].v

\* the line shows a head and a tail of the secret that together are all of it
Readable(line, secret) ==
    \E i \in 0..Len(secret) :
        /\ Contains(line, Take(secret, i))
        /\ Contains(line, SubSeq(secret, i + 1, Len(secret)))

\* a required variable is absent or empty
Missing(env) == \E n \in DOMAIN env : Falsy(env[n])

\* C15: the line a program prints about its API key does not contain the
\* key, whole or in parts that together are the whole key, whatever the
\* length of the key.
C15_AsStated ==
    (boot.line # <<>>) => ~Readable(boot.line, ApiKey)

BadCommands(c) == c.items = <<>> \/ ~c.isList

\* nothing was done on the network by the IOS XE call
SshUntouched ==
    /\ ssh.pc = "idle"
    /\ ssh.opened = 0
    /\ ssh.sent = <<>>
    /\ ssh.masked = <<>>
    /\ ssh.err = NoErr

\* ways a call ends by an exception leaving the tool function
ExceptionKinds == {"HTTPError", "JSONError", "ConnError", "AuthError", "RpcError"}

\* C17: resolve_issues with an empty issue list, show_command /
\* config_command with an empty host and config_command with an empty or
\* non-list commands argument return their error result at once: no
\* authenticate(), no request, no connection opened, nothing sent.
C17_RejectedFirst ==
    /\ [](/\ call.out.kind = "NoIds" =>
                call.pc = "idle" /\ call.nAuth = 0 /\ call.nData = 0
          /\ (ssh # IdleSsh /\ ssh.host = <<>>) =>
                SshUntouched /\ ssh.result.kind = "hostreq"
          /\ (ssh.tool = "config" /\ ssh.host # <<>> /\ BadCommands(ssh.commands)) =>
                SshUntouched /\ ssh.result.kind = "cmdsreq")
    /\ [][(\E a \in Args : Begin("resolve", TRUE, a)) =>
            /\ call'.out.kind = "NoIds"
            /\ call'.pc = "idle"
            /\ token' = token /\ issued' = issued]_vars

C17_Witness ==
    /\ ssh.result.kind = "cmdsreq"
    /\ ~ssh.commands.isList
    /\ ssh.commands.items # <<>>

\* C18 as stated: no tool call of any adapter ends by an exception leaving
\* the tool function.
C18_AsStated ==
    /\ call.out.kind \notin ExceptionKinds
    /\ plain.out.kind \notin ExceptionKinds

\* C18: resolve_issues turns every error raised inside its try block into
\* an error dict and lets only the failure of its first _get_headers()
\* through; show_command / config_command turn every exception into an
\* error string; the other Catalyst Center tools and the ISE, ThousandEyes
\* and Splunk tools convert nothing: an error ends them by the exception.
C18_Boundary ==
    /\ (Finished /\ call.op = "resolve") =>
          IF call.at = "login0" THEN call.out = AuthError
          ELSE call.out.kind \in {"errdict", "resolved"}
    /\ (Finished /\ call.op # "resolve") =>
          /\ call.out.kind \in ExceptionKinds \cup {"return"}
          /\ (call.at \in {"login0", "login2"} \/ RaisesForStatus(call.st)) =>
                call.out.kind \in ExceptionKinds
    /\ (SshReturned /\ ssh.err # NoErr) =>
          ssh.result.kind \in {"error", "autherr"}
    /\ plain.client # "none" =>
          /\ plain.out.kind \in ExceptionKinds \cup {"return"}
          /\ (plain.n = 1 /\ (plain.st = 0 \/ RaisesForStatus(plain.st))) =>
                plain.out.kind \in ExceptionKinds

C18_Witness ==
    /\ Finished /\ call.op = "resolve"
    /\ call.at = "wait2" /\ call.st = 500
    /\ call.out.kind = "errdict"

\* C19 as stated: every HTTP client answers a 401 by one re-authentication
\* and one replay of the request.
C19_AsStated ==
    (plain.client # "none" /\ plain.st = 401) => plain.n = 2

\* C19: only the Catalyst Center client replays: its second data request is
\* sent after a 401 answer to the first and a successful authenticate().
\* The ISE, ThousandEyes and Splunk clients send one request per call, and
\* a 401 answer ends the call by the HTTP error of raise_for_status().
C19_OnlyCatcReplays ==
    /\ call.nData <= 2
    /\ call.pc \in {"hdr2", "wait2"} => call.st = 401 /\ call.ret = "true"
    /\ call.pc \in {"hdr0", "wait1", "hdr2", "wait2"} =>
          call.nData = (IF call.pc = "hdr0" THEN 0
                        ELSE IF call.pc = "wait2" THEN 2 ELSE 1)
    /\ plain.client # "none" => plain.n = 1
    /\ (plain.client # "none" /\ plain.st = 401) =>
          /\ plain.out.kind = "HTTPError"
          /\ plain.out.status = 401

C19_Witness ==
    /\ plain.client = "splunk"
    /\ plain.st = 401
    /\ plain.n = 1
    /\ plain.out.kind = "HTTPError"

\* --------------------------------------------------- Meraki role properties
\* the five read patterns of the SysAdmin role
SysAdminRead(path) ==
    \/ path = <<"organizations">>
    \/ /\ Len(path) = 3
       /\ path[1] = "organizations"
       /\ path[3] \in {"networks", "devices"}
    \/ /\ Len(path) = 4
       /\ path[1] = "organizations"
       /\ <<path[3], path[4]>> \in {<<"licenses", "overview">>,
                                   <<"firmware", "upgrades">>}

\* C20: under the SysAdmin route list an operation becomes a tool only if
\* its method is GET and its path is one of the five read patterns; every
\* other operation of the document is excluded.
C20_SysAdminReadOnly ==
    route.role = "sysadmin" =>
        IF route.method = "GET" /\ SysAdminRead(route.path)
        THEN route.mcp_type = "TOOL"
        ELSE route.mcp_type = "EXCLUDE"

C20_Witness ==
    /\ route.role = "sysadmin"
    /\ route.method = "PUT"
    /\ route.path = <<"networks", "x", "firmwareUpgrades">>
    /\ route.mcp_type = "EXCLUDE"

\* the firmware upgrade pattern of the NOC role
NocUpgrade(path) ==
    /\ Len(path) = 3
    /\ path[1] = "networks"
    /\ path[3] = "firmwareUpgrades"

\* C21: under the NOC route list an operation becomes a tool only if it is
\* a GET on one of the five organization patterns or the PUT on
\* /networks/{id}/firmwareUpgrades; every other operation, every other PUT,
\* POST and DELETE included, is excluded.
C21_NocOnly ==
    route.role = "noc" =>
        IF \/ route.method = "GET" /\ SysAdminRead(route.path)
           \/ route.method = "PUT" /\ NocUpgrade(route.path)
        THEN route.mcp_type = "TOOL"
        ELSE route.mcp_type = "EXCLUDE"

C21_Witness ==
    /\ route.role = "noc"
    /\ route.method = "PUT"
    /\ route.path = <<"organizations", "x", "networks">>
    /\ route.mcp_type = "EXCLUDE"

\* --------------------------------------------------- ISE list properties
\* C22: the size query parameter an ISE list tool sends is min(size, 100),
\* so at most 100, for every value of the size argument; the page argument
\* is sent as given.
C22_SizeCapped ==
    plain # NoPlain =>
        /\ plain.params.size = (IF plain.args.size < 100
                                THEN plain.args.size ELSE 100)
        /\ plain.params.size <= 100
        /\ plain.params.page = plain.args.page

C22_Witness ==
    /\ plain # NoPlain
    /\ plain.endpoint = "endpoint"
    /\ plain.args.size = 101
    /\ plain.params.size = 100

C24_AsStated ==
    [][/\ token' # token =>
             /\ phase = "boot" \/ call.pc \in Logins
             /\ phase' # "exited"
             /\ call.pc \in Logins => call'.ret = "true"
             /\ call.pc = "login0" => token = NoToken
       /\ token # NoToken => token' # NoToken]_vars

C26_AsStated ==
    /\ (call.ret = "true" /\ call.pc \in {"hdr0", "chk2", "hdr2"}) =>
          token # NoToken
    /\ call.pc # "login2"
    /\ call.pc \in {"wait1", "wait2"} => call.hdr # NoToken

\* C27 as stated: when the concurrent calls have finished, a cached token
\* is the token of the upstream's most recent successful login, and no
\* assignment replaces a token by one that was issued before it.
C27_AsStated ==
    /\ [](( /\ phase = "serving"
            /\ call.pc = "idle"
            /\ bg.pc = "idle"
            /\ token # NoToken) => token = issued)
    /\ [][(token # NoToken /\ token' # NoToken) => token' >= token]_vars

\* ------------------------------------------------------ Meraki response fix
MerakiDone == plain.client = "meraki"
Fixed == FixApplies(plain.url, plain.st) /\ plain.body.kind = "list"
AllListed ==
    upgrade_string_fields \cup upgrade_nested_fields \cup string_fields
        \cup device_string_fields

\* the change of one value is a null made "" in a listed string field or a
\* null made [] in tags / productTypes
NullFix(f, old, new) ==
    \/ new = old
    \/ old.t = "null" /\ new = JStr("") /\ f \in AllListed
    \/ old.t = "null" /\ new = JList /\ f \in {"tags", "productTypes"}

\* the item is handled as a device: no upgrade key, no network key
AsDevice(item) ==
    /\ ~Has(item, upgrade_markers)
    /\ ~Has(item, network_markers)
    /\ Has(item, device_markers)

\* C28 as stated: in a fixed response every value is the upstream's or a
\* replaced null, and every other response has the body the upstream sent.
C28_AsStated ==
    MerakiDone =>
        /\ plain.out.kind = plain.body.kind
        /\ Len(plain.out.items) = Len(plain.body.items)
        /\ IF Fixed
           THEN \A n \in DOMAIN plain.body.items : \A f \in ItemFields :
                   NullFix(f, plain.body.items[n][f], plain.out.items[n][f])
           ELSE plain.out.items = plain.body.items

\* C28: in a fixed response every value is the upstream's or a replaced
\* null, except that in an item handled as a device a listed device string
\* field that holds a value that is neither null nor a string holds str()
\* of that value afterwards; every other response has the JSON value the
\* upstream sent, with the upstream's bytes unless it is a 200 JSON answer
\* of a matching URL, which is serialised again.
C28_NullsAndDeviceStrings ==
    MerakiDone =>
        /\ plain.out.kind = plain.body.kind
        /\ Len(plain.out.items) = Len(plain.body.items)
        /\ IF Fixed
           THEN \A n \in DOMAIN plain.body.items : \A f \in ItemFields :
                   LET old == plain.body.items[n][f]
                       new == plain.out.items[n][f]
                   IN IF /\ AsDevice(plain.body.items[n])
                         /\ f \in device_string_fields
                         /\ old.t \notin {"absent", "null", "str"}
                      THEN new = JStr(old.s)
                      ELSE NullFix(f, old, new)
           ELSE plain.out.items = plain.body.items
        /\ plain.out.bytes =
              (IF FixApplies(plain.url, plain.st) /\ plain.body.kind # "text"
               THEN "dumps" ELSE "upstream")

C28_Witness ==
    /\ MerakiDone
    /\ Fixed
    /\ Len(plain.body.items) = 1
    /\ plain.body.items[1]["serial"] = JNum
    /\ plain.out.items[1]["serial"] = JStr("7")
    /\ plain.body.items[1]["name"] = JNull
    /\ plain.out.items[1]["name"] = JStr("")
    /\ plain.out.items[1]["id"] = JNull

\* ------------------------------------------------------ Meraki role choice
RoleIs(texts) == route.env.set /\ route.env.v \in texts

\* C29: MCP_ROLE written sysadmin in any case selects the sysadmin list,
\* written all in any case the unrestricted list, and every other value,
\* the unset, the empty and the misspelt one included, the NOC list; the
\* operations are mapped under that one list, and the selection stays as it
\* is once made.
C29_RoleSelection ==
    /\ [](route # NoRoute =>
            /\ route.role \in Roles
            /\ route.mcp_type =
                  McpType(IF RoleIs({<<"s", "y", "s", "a", "d", "m", "i", "n">>,
                                     <<"S", "y", "s", "A", "d", "m", "i", "n">>})
                          THEN sysadmin_routes
                          ELSE IF RoleIs({<<"a", "l", "l">>,
                                          <<"A", "L", "L">>})
                          THEN firehose_routes
                          ELSE noc_routes,
                          route.method, route.path)
            /\ route.role =
                  (IF RoleIs({<<"s", "y", "s", "a", "d", "m", "i", "n">>,
                              <<"S", "y", "s", "A", "d", "m", "i", "n">>})
                   THEN "sysadmin"
                   ELSE IF RoleIs({<<"a", "l", "l">>,
                                   <<"A", "L", "L">>})
                   THEN "all"
                   ELSE "noc"))
    /\ [][route # NoRoute => route'.role = route.role /\ route'.env = route.env]_vars

C29_Witness ==
    /\ route.env = Val(<<"S", "y", "s", "A", "d", "m", "i", "n">>)
    /\ route.role = "sysadmin"
    /\ route.method = "PUT"
    /\ route.path = <<"networks", "x", "firmwareUpgrades">>
    /\ route.mcp_type = "EXCLUDE"

\* ---------------------------------------------------------- start ordering
\* C30: in the Catalyst Center, ISE and ThousandEyes programs mcp.run is
\* called only after the one test of the upstream has succeeded, and a
\* failed test ends the process with exit status 1, no listener started
\* then or later.
C30_ListenAfterCheck ==
    /\ []((boot.pc # "off" /\ boot.adapter \in Probing) =>
            /\ boot.listen => boot.probe = "ok" /\ boot.net = 1 /\ boot.exit = "none"
            /\ boot.probe = "failed" =>
                  boot.pc = "failed" /\ boot.exit = "exit1" /\ ~boot.listen
            /\ boot.probe = "none" => boot.net = 0)
    /\ [][boot.pc = "failed" => boot' = boot]_vars
    /\ [][(boot'.listen /\ ~boot.listen /\ boot.adapter \in Probing) =>
             boot.pc = "ready" /\ boot.probe = "ok"]_vars

C30_Witness ==
    /\ boot.adapter = "ise"
    /\ boot.probe = "failed"
    /\ boot.pc = "failed"
    /\ boot.exit = "exit1"
    /\ boot.net = 1
    /\ ~boot.listen

====
